---- MODULE Spec2Model ----
(***************************************************************************)
(* mxtools: the Eiger detector adapter (mxtools/eiger.py) and the scan     *)
(* set-up plans (mxtools/scans.py).                                        *)
(*                                                                         *)
(* Part 1 models the plans of scans.py.  A plan is a Python generator: it  *)
(* yields messages to the run engine one at a time and is resumed with the *)
(* outcome of each.  bps.mv(o1, v1, o2, v2, ...) yields one 'set' message  *)
(* per (object, value) pair, in argument order, and then one 'wait'        *)
(* message for the group; bps.sleep(t) yields one 'sleep' message.  When   *)
(* the run engine cannot carry a message out it throws the error into the  *)
(* generator at that yield.  No plan of scans.py has a try statement.      *)
(*                                                                         *)
(* Part 2 models the classes of eiger.py.  Their methods call into the     *)
(* ophyd base classes, which are modelled at the super() calls:            *)
(*  - set_and_wait(signal, v) returns with the register at v or raises;    *)
(*  - Device.stage() raises RedundantStaging unless the device is          *)
(*    unstaged; it applies the stage_sigs in order, remembering the value  *)
(*    each replaced, and stages the child devices (the file plugin is      *)
(*    one); when any of that raises it calls self.unstage() and raises     *)
(*    again;                                                               *)
(*  - Device.unstage() unstages the children, restores the remembered      *)
(*    values last first, and has no effect on an unstaged device;          *)
(*  - FileStoreBase has no datum factory until _generate_resource() has    *)
(*    run, and generate_datum() calls the factory.                         *)
(* A method call is one step: the world it leaves, whether it raised, and  *)
(* the order of its effects are recorded in call.                          *)
(***************************************************************************)
EXTENDS Integers, Sequences, FiniteSets, TLC

\* ------------------------------------------------------------------ bounds
\* Numeric plan parameters are drawn from 0..MaxVal.
MaxVal == 1

\* Register values are fixed-point numbers with two decimals, so that the
\* literal 0.01 of setup_zebra_vector_scan_for_raster is exactly 1.
Scale == 100

Fx(n) == n * Scale

Vals == 0 .. MaxVal

\* ------------------------------------------------------- Part 1: the plans
VARIABLES proc, args, pc, log, status, err

planVars == <<proc, args, pc, log, status, err>>

\* Part 2: the registers of the detector, the two Python objects, the
\* documents emitted, the short uids handed out, and the last call made.
VARIABLES hw, plugin, det, docs, uids, call

detVars == <<hw, plugin, det, docs, uids, call>>

vars == <<planVars, detVars>>

\* The messages a plan yields.
Set(reg, val) == [cmd |-> "set", reg |-> reg, val |-> val]

Wait == [cmd |-> "wait", reg |-> "", val |-> 0]

Sleep(t) == [cmd |-> "sleep", reg |-> "", val |-> t]

\* Evaluating the expression raises before any message is yielded.
Raise == [cmd |-> "raise", reg |-> "", val |-> 0]

\* bps.mv: the 'set' messages in argument order, then the group's 'wait'.
Mv(sets) == sets \o <<Wait>>

zebra_daq_prep ==
    Mv(<<Set("zebra.reset", Fx(1))>>)
    \o <<Sleep(Fx(2))>>
    \o Mv(<<Set("zebra.out1", Fx(31)),
            Set("zebra.m1_set_pos", Fx(1)),
            Set("zebra.m2_set_pos", Fx(1)),
            Set("zebra.m3_set_pos", Fx(1)),
            Set("zebra.pc.arm_sel", Fx(1))>>)

\* is_still is a Python value: "False", "True", or "0" (the int 0, which is
\* falsy but is not the object False).
IsStillValues == {"False", "True", "0"}

\* A faulty variant of IsFalse: "not is_still", the truth value instead of identity.
IsFalsy(v) == v \in {"False", "0"}

\* Python's "is_still is False": identity with the object False.
IsFalse(v) == v = "False"

setup_zebra_vector_scan(a) ==
    Mv(<<Set("zebra.pc.gate.sel", Fx(a.angle_start))>>)
    \o (IF IsFalse(a.is_still)
        THEN Mv(<<Set("zebra.pc.gate.width", Fx(a.gate_width)),
                  Set("zebra.pc.gate.step", Fx(a.scan_width))>>)
        ELSE <<>>)
    \o Mv(<<Set("zebra.pc.gate.num_gates", Fx(1)),
            Set("zebra.pc.pulse.start", Fx(0)),
            Set("zebra.pc.pulse.width", Fx(a.pulse_width)),
            Set("zebra.pc.pulse.step", Fx(a.pulse_step)),
            Set("zebra.pc.pulse.delay", Fx(a.exposure_period_per_image) * 500),
            Set("zebra.pc.pulse.max", Fx(a.num_images))>>)

\* A faulty variant of RasterGate: the zero-width guard is dropped.
RasterGateUnguarded(a) ==
    Mv(<<Set("zebra.pc.gate.width", Fx(a.num_images * a.image_width)),
         Set("zebra.pc.gate.step", Fx(a.num_images * a.image_width) + 1)>>)

\* The gate width and step, skipped for a zero image width.
RasterGate(a) ==
    IF a.image_width # 0
    THEN Mv(<<Set("zebra.pc.gate.width", Fx(a.num_images * a.image_width)),
              Set("zebra.pc.gate.step", Fx(a.num_images * a.image_width) + 1)>>)
    ELSE <<>>

setup_zebra_vector_scan_for_raster(a) ==
    Mv(<<Set("zebra.pc.encoder", Fx(a.scan_encoder))>>)
    \o <<Sleep(Fx(1))>>
    \o Mv(<<Set("zebra.pc.direction", Fx(0)),
            Set("zebra.pc.gate.sel", Fx(0))>>)
    \o Mv(<<Set("zebra.pc.gate.start", Fx(a.angle_start))>>)
    \o RasterGate(a)
    \o Mv(<<Set("zebra.pc.gate.num_gates", Fx(1)),
            Set("zebra.pc.pulse.sel", Fx(1)),
            Set("zebra.pc.pulse.start", Fx(0)),
            Set("zebra.pc.pulse.width",
                Fx(a.exposure_time_per_image - a.detector_dead_time) * 1000),
            Set("zebra.pc.pulse.step", Fx(a.exposure_period_per_image) * 1000),
            Set("zebra.pc.pulse.delay", Fx(a.exposure_period_per_image) * 500)>>)

setup_vector_program(a) ==
    Mv(<<Set("vector.num_frames", Fx(a.num_images)),
         Set("vector.start.omega", Fx(a.angle_start)),
         Set("vector.end.omega", Fx(a.angle_end)),
         Set("vector.frame_exptime", Fx(a.exposure_period_per_image) * 1000),
         Set("vector.hold", Fx(0))>>)

\* eiger.acquire_time(exposure_time) calls a signal object, which is not
\* callable: the TypeError is raised when the generator is first advanced,
\* before bps.mv is entered.
setup_eiger_exposure(a) == <<Raise>>

setup_eiger_triggers(a) ==
    Mv(<<Set("eiger.trigger_mode", Fx(a.mode))>>)
    \o Mv(<<Set("eiger.num_triggers", Fx(a.num_triggers))>>)
    \o Mv(<<Set("eiger.trigger_exposure", Fx(a.exposure_per_image))>>)

\* A file prefix is its '/'-separated components, each an identifier of a
\* string; 0 is the empty string (a prefix ending in '/').
FilePrefixes == {<<5>>, <<4, 5>>, <<4, 0>>}

\* str(file_prefix).split('/')[-1]
LastComponent(p) == p[Len(p)]

\* getpass.getuser() and grp.getgrgid(os.getgid())[0], as identifiers.
CurrentUser == 1000

CurrentGroup == 1001

\* The file settings and the acquisition settings.
ArmingFiles(a) ==
    Mv(<<Set("eiger.save_files", Fx(1))>>)
    \o Mv(<<Set("eiger.file_owner", CurrentUser)>>)
    \o Mv(<<Set("eiger.file_owner_grp", CurrentGroup)>>)
    \o Mv(<<Set("eiger.file_perms", Fx(420))>>)
    \o Mv(<<Set("eiger.acquire_time", Fx(a.exposure_per_image))>>)
    \o Mv(<<Set("eiger.acquire_period", Fx(a.exposure_per_image))>>)
    \o Mv(<<Set("eiger.num_images", Fx(a.num_images))>>)
    \o Mv(<<Set("eiger.file_path", a.data_directory_name)>>)
    \o Mv(<<Set("eiger.fw_name_pattern", LastComponent(a.file_prefix))>>)
    \o Mv(<<Set("eiger.sequence_id", Fx(a.file_number_start))>>)

\* The file header: beam centre, rotation, wavelength, distance.
ArmingHeader(a) ==
    Mv(<<Set("eiger.beam_center_x", Fx(a.x_beam))>>)
    \o Mv(<<Set("eiger.beam_center_y", Fx(a.y_beam))>>)
    \o Mv(<<Set("eiger.omega_incr", Fx(a.width))>>)
    \o Mv(<<Set("eiger.omega_start", Fx(a.start))>>)
    \o Mv(<<Set("eiger.wavelength", Fx(a.wavelength))>>)
    \o Mv(<<Set("eiger.det_distance", Fx(a.det_distance_m))>>)

ArmingAcquire == Mv(<<Set("eiger.acquire", Fx(1))>>)

\* A faulty variant of setup_eiger_arming: the detector is armed before the header.
ArmingAcquireEarly(a) == ArmingFiles(a) \o ArmingAcquire \o ArmingHeader(a)

setup_eiger_arming(a) == ArmingFiles(a) \o ArmingHeader(a) \o ArmingAcquire

setup_eiger_stop_acquire_and_wait ==
    Mv(<<Set("eiger.acquire", Fx(0))>>)

ProcNames == {"zebra_daq_prep", "setup_zebra_vector_scan",
              "setup_zebra_vector_scan_for_raster", "setup_vector_program",
              "setup_eiger_exposure", "setup_eiger_triggers",
              "setup_eiger_arming", "setup_eiger_stop_acquire_and_wait"}

NoArgs == [none |-> 0]

\* The parameter sets each plan is called with.
ArgsOf(p) ==
    CASE p = "setup_zebra_vector_scan" ->
           [angle_start : Vals, gate_width : Vals, scan_width : Vals,
            pulse_width : {2}, pulse_step : {3},
            exposure_period_per_image : Vals, num_images : {4},
            is_still : IsStillValues]
      [] p = "setup_zebra_vector_scan_for_raster" ->
           [angle_start : Vals, image_width : Vals,
            exposure_time_per_image : Vals, exposure_period_per_image : Vals,
            detector_dead_time : {0}, num_images : {1, 4}, scan_encoder : {3}]
      [] p = "setup_vector_program" ->
           [num_images : {4}, angle_start : Vals, angle_end : Vals,
            exposure_period_per_image : Vals]
      [] p = "setup_eiger_exposure" ->
           [exposure_time : Vals, exposure_period : Vals]
      [] p = "setup_eiger_triggers" ->
           [mode : Vals, num_triggers : {1, 4}, exposure_per_image : Vals]
      [] p = "setup_eiger_arming" ->
           [start : Vals, width : Vals, num_images : {4},
            exposure_per_image : Vals, file_prefix : FilePrefixes,
            data_directory_name : {7}, file_number_start : Vals,
            x_beam : Vals, y_beam : {2}, wavelength : {1},
            det_distance_m : {3}]
      [] OTHER -> {NoArgs}

\* The messages plan p yields when called with a.
Plan(p, a) ==
    CASE p = "zebra_daq_prep" -> zebra_daq_prep
      [] p = "setup_zebra_vector_scan" -> setup_zebra_vector_scan(a)
      [] p = "setup_zebra_vector_scan_for_raster" ->
           setup_zebra_vector_scan_for_raster(a)
      [] p = "setup_vector_program" -> setup_vector_program(a)
      [] p = "setup_eiger_exposure" -> setup_eiger_exposure(a)
      [] p = "setup_eiger_triggers" -> setup_eiger_triggers(a)
      [] p = "setup_eiger_arming" -> setup_eiger_arming(a)
      [] p = "setup_eiger_stop_acquire_and_wait" ->
           setup_eiger_stop_acquire_and_wait
      [] OTHER -> <<>>

NoErr == [step |-> 0, kind |-> "none"]

\* The run engine is handed the plan p(a): nothing of it has run yet.
Call(p, a) ==
    /\ status = "idle"
    /\ proc' = p
    /\ args' = a
    /\ pc' = 1
    /\ log' = <<>>
    /\ status' = "running"
    /\ err' = NoErr
    /\ UNCHANGED detVars

\* The state of the plan after its message at pc was carried out.
Advance ==
    /\ pc' = pc + 1
    /\ status' = IF pc + 1 > Len(Plan(proc, args)) THEN "done" ELSE "running"
    /\ UNCHANGED <<proc, args, err>>

\* The run engine carries out the message at pc and resumes the plan.
MsgOk ==
    /\ status = "running"
    /\ LET m == Plan(proc, args)[pc] IN
         /\ m.cmd # "raise"
         /\ log' = IF m.cmd = "set"
                   THEN Append(log, [reg |-> m.reg, val |-> m.val])
                   ELSE log
    /\ Advance
    /\ UNCHANGED detVars

\* A faulty variant of Abort: the error is caught and the plan goes on to its next
\* message.
AbortSwallowed(kind) ==
    /\ pc' = pc + 1
    /\ status' = IF pc + 1 > Len(Plan(proc, args)) THEN "done" ELSE "running"
    /\ err' = [step |-> pc, kind |-> kind]
    /\ UNCHANGED <<proc, args, log>>

\* The plan stops with the error thrown into it at its current yield.
Abort(kind) ==
    /\ status' = "failed"
    /\ err' = [step |-> pc, kind |-> kind]
    /\ UNCHANGED <<proc, args, pc, log>>

\* The run engine cannot carry out the 'set' or 'wait' at pc and throws the
\* error into the plan, which does not catch it.
MsgFail ==
    /\ status = "running"
    /\ Plan(proc, args)[pc].cmd \in {"set", "wait"}
    /\ Abort("FailedStatus")
    /\ UNCHANGED detVars

\* The plan's own code raises before yielding.
PyRaise ==
    /\ status = "running"
    /\ Plan(proc, args)[pc].cmd = "raise"
    /\ Abort("TypeError")
    /\ UNCHANGED detVars

\* The plan has ended, normally or with its error; the run engine is idle
\* again.
Return ==
    /\ status \in {"done", "failed"}
    /\ proc' = "none"
    /\ args' = NoArgs
    /\ pc' = 1
    /\ log' = <<>>
    /\ status' = "idle"
    /\ err' = NoErr
    /\ UNCHANGED detVars

PlanNext ==
    \/ \E p \in ProcNames : \E a \in ArgsOf(p) : Call(p, a)
    \/ MsgOk
    \/ MsgFail
    \/ PyRaise
    \/ Return

\* ------------------------------------------------- properties of the plans
Regs(l) == [i \in 1 .. Len(l) |-> l[i].reg]

IsPrefix(s, t) == Len(s) =< Len(t) /\ s = SubSeq(t, 1, Len(s))

\* The register writes among the messages ms, in order.
RECURSIVE Writes(_)
Writes(ms) ==
    IF ms = <<>> THEN <<>>
    ELSE (IF Head(ms).cmd = "set"
          THEN <<[reg |-> Head(ms).reg, val |-> Head(ms).val]>>
          ELSE <<>>) \o Writes(Tail(ms))

Finished == status \in {"done", "failed"}

RasterHeadRegs ==
    <<"zebra.pc.encoder", "zebra.pc.direction", "zebra.pc.gate.sel",
      "zebra.pc.gate.start">>

RasterGateRegs == <<"zebra.pc.gate.width", "zebra.pc.gate.step">>

RasterPulseRegs ==
    <<"zebra.pc.gate.num_gates", "zebra.pc.pulse.sel", "zebra.pc.pulse.start",
      "zebra.pc.pulse.width", "zebra.pc.pulse.step", "zebra.pc.pulse.delay">>

RasterExpected(a) ==
    RasterHeadRegs
    \o (IF a.image_width # 0 THEN RasterGateRegs ELSE <<>>)
    \o RasterPulseRegs

\* C4: setup_zebra_vector_scan_for_raster writes pc.encoder, pc.direction,
\* pc.gate.sel, pc.gate.start, then pc.gate.width and pc.gate.step if and
\* only if image_width is not 0, then num_gates, pulse.sel, pulse.start,
\* pulse.width, pulse.step, pulse.delay: what has been written is always a
\* prefix of that list, and the whole list once the plan is done.
C4_RasterOrder ==
    proc = "setup_zebra_vector_scan_for_raster" =>
        /\ IsPrefix(Regs(log), RasterExpected(args))
        /\ status = "done" => Regs(log) = RasterExpected(args)

C4_Witness ==
    /\ proc = "setup_zebra_vector_scan_for_raster"
    /\ status = "done"
    /\ args.image_width # 0
    /\ Len(log) = 12
    /\ log[5].reg = "zebra.pc.gate.width"

\* C5: when a message of a plan fails at step k, the plan has failed with
\* that error, it stands at step k, and the writes issued are exactly those
\* of the steps before k, once each: none of a later step, none repeated,
\* none compensating.
C5_AbortOnFailure ==
    /\ log = Writes(SubSeq(Plan(proc, args), 1, pc - 1))
    /\ err.step # 0 =>
         /\ status = "failed"
         /\ pc = err.step
         /\ pc =< Len(Plan(proc, args))

C5_Witness ==
    /\ proc = "setup_eiger_arming"
    /\ status = "failed"
    /\ err.kind = "FailedStatus"
    /\ Len(log) = 10
    /\ Plan(proc, args)[pc].reg = "eiger.beam_center_x"

ArmRegs == {"zebra.pc.arm_sel", "eiger.acquire"}

SelectRegs == {"zebra.pc.gate.sel", "zebra.pc.pulse.sel"}

GeometryRegs ==
    {"zebra.pc.gate.start", "zebra.pc.gate.width", "zebra.pc.gate.step",
     "zebra.pc.pulse.start", "zebra.pc.pulse.width", "zebra.pc.pulse.step",
     "zebra.pc.pulse.delay", "eiger.beam_center_x", "eiger.beam_center_y",
     "eiger.omega_start", "eiger.omega_incr", "eiger.det_distance"}

\* No write to a register of rs is followed by a geometry write, and when
\* one is issued every geometry write of the plan has been issued.
AfterGeometry(rs) ==
    \A i \in 1 .. Len(log) :
        log[i].reg \in rs =>
            /\ \A j \in i + 1 .. Len(log) : log[j].reg \notin GeometryRegs
            /\ \A m \in 1 .. Len(Plan(proc, args)) :
                 LET w == Plan(proc, args)[m] IN
                   (w.cmd = "set" /\ w.reg \in GeometryRegs) =>
                       \E j \in 1 .. i - 1 : log[j].reg = w.reg

\* C7 as stated: in every plan each write to an arm or select register
\* (pc.arm_sel, pc.gate.sel, pc.pulse.sel, eiger.acquire) comes after every
\* geometry write of the plan.
C7_ArmAndSelectAfterGeometry == AfterGeometry(ArmRegs \cup SelectRegs)

\* C7 as amended: in every plan each write to an arm register (pc.arm_sel,
\* eiger.acquire) comes after every geometry write of the plan.
C7_ArmAfterGeometry == AfterGeometry(ArmRegs)

C7_Witness ==
    /\ proc = "setup_eiger_arming"
    /\ status = "done"
    /\ log[Len(log)].reg = "eiger.acquire"
    /\ \E j \in 1 .. Len(log) : log[j].reg = "eiger.det_distance"

\* C8: setup_eiger_exposure ends without error having issued exactly two
\* writes: acquire_time := exposure_time, then acquire_period :=
\* exposure_period (no message of the run having failed).
C8_ExposureTwoWrites ==
    (proc = "setup_eiger_exposure" /\ Finished
     /\ err.kind # "FailedStatus") =>
        /\ status = "done"
        /\ log = <<[reg |-> "eiger.acquire_time", val |-> Fx(args.exposure_time)],
                   [reg |-> "eiger.acquire_period",
                    val |-> Fx(args.exposure_period)]>>

VectorPulseRegs ==
    <<"zebra.pc.gate.num_gates", "zebra.pc.pulse.start", "zebra.pc.pulse.width",
      "zebra.pc.pulse.step", "zebra.pc.pulse.delay", "zebra.pc.pulse.max">>

VectorExpected(a) ==
    <<"zebra.pc.gate.sel">>
    \o (IF a.is_still = "False" THEN RasterGateRegs ELSE <<>>)
    \o VectorPulseRegs

\* C9: setup_zebra_vector_scan writes pc.gate.width := gate_width and
\* pc.gate.step := scan_width if and only if is_still is False, after the
\* first write (which carries angle_start) and before the pulse group
\* (num_gates, pulse.start, pulse.width, pulse.step, pulse.delay,
\* pulse.max); otherwise the first write and the pulse group alone, in that
\* order.
C9_VectorStillBranch ==
    proc = "setup_zebra_vector_scan" =>
        /\ IsPrefix(Regs(log), VectorExpected(args))
        /\ status = "done" => Regs(log) = VectorExpected(args)
        /\ Len(log) >= 1 => log[1].val = Fx(args.angle_start)
        /\ (Len(log) >= 3 /\ args.is_still = "False") =>
             /\ log[2] = [reg |-> "zebra.pc.gate.width",
                          val |-> Fx(args.gate_width)]
             /\ log[3] = [reg |-> "zebra.pc.gate.step",
                          val |-> Fx(args.scan_width)]

C9_Witness ==
    /\ proc = "setup_zebra_vector_scan"
    /\ status = "done"
    /\ args.is_still = "False"
    /\ args.gate_width # args.scan_width
    /\ Len(log) = 9

C9_WitnessStill ==
    /\ proc = "setup_zebra_vector_scan"
    /\ status = "done"
    /\ args.is_still = "True"
    /\ Len(log) = 7

\* --------------------------------------------- Part 2: the detector classes
\* Number of short uids new_short_uid hands out, of Datums generated, and
\* the largest value of the detector's sequence counter.
MaxStages == 2

MaxDatums == 2

MaxSeq == 2

\* EigerSimulatedFilePlugin.__init__
sequence_id_offset == 1

\* root and write_path_template of EigerBaseV26.file.  A path is its
\* components and the number of '/' it ends with.
Root == <<"GPFS", "CENTRAL", "xf17id2">>

write_path_template ==
    [comps |-> Root \o <<"mfuchs", "fmxoperator", "20200222", "mx999999-1665">>,
     trail |-> 1]

\* datetime.now().strftime(template): the template holds no % directive, so
\* the result is the template whatever the date.
write_path == write_path_template

\* f"{write_path}/"
AddSlash(p) == [p EXCEPT !.trail = @ + 1]

\* PurePath(s) drops the slashes a path ends with.
PurePath(p) == p.comps

\* PurePath / name
Join(comps, name) == Append(comps, name)

IsUnder(comps, root) ==
    Len(comps) >= Len(root) /\ SubSeq(comps, 1, Len(root)) = root

\* PurePath.relative_to(root), for a path under root.
RelativeTo(comps, root) == SubSeq(comps, Len(root) + 1, Len(comps))

\* The n-th value of new_short_uid(): the values are pairwise different.
NewShortUid(n) == ToString(n)

\* "{}_$id".format(res_uid)
NamePattern(uid) == <<uid, "_$id">>

\* stage_sigs as EigerSingleTriggerV26.__init__ sets them, in order.
StageSigs ==
    <<<<"cam.trigger_mode", 0>>, <<"cam.num_triggers", 1>>,
      <<"cam.compression_algo", 1>>>>

\* The registers a call writes; a fault is the set of those (at most one)
\* whose write times out during the call.
WrittenRegs ==
    {"cam.manual_trigger", "cam.trigger_mode", "cam.num_triggers",
     "cam.compression_algo", "file.file_path", "file.file_write_name_pattern"}

Faults == {{}} \cup {{r} : r \in WrittenRegs}

ImagesPerFile == {1, 10}

\* The registers hold whatever an earlier session left in them.
InitialRegisters ==
    {("cam.manual_trigger" :> mt) @@ ("cam.trigger_mode" :> tm)
     @@ ("cam.num_triggers" :> 3) @@ ("cam.compression_algo" :> 0)
     @@ ("file.file_path" :> [comps |-> <<"tmp">>, trail |-> 0])
     @@ ("file.file_write_name_pattern" :> <<"series", "_$id">>)
     @@ ("file.file_write_images_per_file" :> ipf)
     @@ ("file.sequence_id" :> 0) :
       mt \in {0, 1}, tm \in {0, 2}, ipf \in ImagesPerFile}

NoCall ==
    [op |-> "none", ok |-> TRUE, trace |-> <<>>, faulty |-> FALSE,
     prev |-> "none"]

\* The objects as constructed, no plan running.
Init ==
    /\ proc = "none"
    /\ args = NoArgs
    /\ pc = 1
    /\ log = <<>>
    /\ status = "idle"
    /\ err = NoErr
    /\ hw \in InitialRegisters
    /\ plugin = [staged |-> "no", datum_factory |-> 0, frame_num |-> "None",
                 fn |-> <<>>]
    /\ det = [staged |-> "no", original_vals |-> <<>>]
    /\ docs = [resources |-> <<>>, datums |-> <<>>]
    /\ uids = 0
    /\ call = NoCall

\* A call works on the world it finds and leaves the world it made, with
\* ok = FALSE when it raises and the trace of what it did.
World ==
    [hw |-> hw, plugin |-> plugin, det |-> det, docs |-> docs, uids |-> uids,
     ok |-> TRUE, trace |-> <<>>]

Ev(w, e) == [w EXCEPT !.trace = Append(@, e)]

Raised(w, what) == [Ev(w, <<"raise", what>>) EXCEPT !.ok = FALSE]

\* set_and_wait(signal, val): the register takes val, or the wait times out
\* with the register as it was.  Skipped when the caller has already raised.
SetAndWait(w, reg, val, f) ==
    IF ~w.ok THEN w
    ELSE IF reg \in f THEN Raised(w, reg)
    ELSE [Ev(w, <<"set", reg>>) EXCEPT !.hw[reg] = val]

\* super().stage() of the plugin: refuses a plugin that is staged.
FileStoreStage(w) ==
    IF ~w.ok THEN w
    ELSE IF w.plugin.staged # "no" THEN Raised(w, "RedundantStaging")
    ELSE [Ev(w, <<"staged", "file">>) EXCEPT !.plugin.staged = "yes"]

\* self._fn = fn; self._generate_resource(res_kwargs): the Resource is
\* recorded under root and becomes the one that Datums are made for.
GenerateResource(w, fn, ipf, uid) ==
    IF ~w.ok THEN w
    ELSE IF ~IsUnder(fn, Root)
    THEN Raised([w EXCEPT !.plugin.fn = fn], "ValueError")
    ELSE [Ev(w, <<"resource", uid>>) EXCEPT
            !.plugin.fn = fn,
            !.plugin.datum_factory = Len(w.docs.resources) + 1,
            !.docs.resources =
                Append(@, [root |-> Root,
                           resource_path |-> RelativeTo(fn, Root),
                           images_per_file |-> ipf])]

\* A faulty variant of FileStage: the Resource is opened before the name
\* pattern is written.
FileStageResourceFirst(w, f) ==
    LET uid == NewShortUid(w.uids + 1)
        w1 == [Ev(w, <<"new_short_uid", uid>>) EXCEPT !.uids = @ + 1]
        w2 == SetAndWait(w1, "file.file_path", AddSlash(write_path), f)
        w3 == FileStoreStage(w2)
        w4 == GenerateResource(w3, Join(PurePath(w3.hw["file.file_path"]), uid),
                               w3.hw["file.file_write_images_per_file"], uid)
    IN  IF ~w.ok THEN w
        ELSE SetAndWait(w4, "file.file_write_name_pattern", NamePattern(uid), f)

\* EigerSimulatedFilePlugin.stage.  Not reached when the caller has already
\* raised.
FileStage(w, f) ==
    LET uid == NewShortUid(w.uids + 1)
        w1 == [Ev(w, <<"new_short_uid", uid>>) EXCEPT !.uids = @ + 1]
        w2 == SetAndWait(w1, "file.file_path", AddSlash(write_path), f)
        w3 == SetAndWait(w2, "file.file_write_name_pattern", NamePattern(uid), f)
        w4 == FileStoreStage(w3)
    IN  IF ~w.ok THEN w
        ELSE GenerateResource(w4, Join(PurePath(w4.hw["file.file_path"]), uid),
                              w4.hw["file.file_write_images_per_file"], uid)

\* unstage() of the plugin, which the class does not override.
FileUnstage(w) ==
    IF ~w.ok THEN w
    ELSE [Ev(w, <<"unstaged", "file">>) EXCEPT !.plugin.staged = "no"]

\* A faulty variant of SeqId: the offset is left out.
SeqIdNoOffset(n) == n

\* int(self.sequence_id_offset) + int(self.sequence_id.get())
SeqId(n) == sequence_id_offset + n

\* A faulty variant of GenerateDatum: a Datum is made although no Resource
\* was opened.
GenerateDatumUnowned(w) ==
    [Ev(w, <<"datum", "made">>) EXCEPT
        !.docs.datums =
            Append(@, [resource |-> w.plugin.datum_factory,
                       seq_id |-> SeqId(w.hw["file.sequence_id"]),
                       frame_num |-> w.plugin.frame_num])]

\* EigerSimulatedFilePlugin.generate_datum: the Datum is made by the factory
\* of the open Resource; with no Resource opened the factory is None and
\* calling it raises.
GenerateDatum(w) ==
    IF w.plugin.datum_factory = 0 THEN Raised(w, "TypeError")
    ELSE [Ev(w, <<"datum", "made">>) EXCEPT
            !.docs.datums =
                Append(@, [resource |-> w.plugin.datum_factory,
                           seq_id |-> SeqId(w.hw["file.sequence_id"]),
                           frame_num |-> w.plugin.frame_num])]

\* The parent's unstage restores the staged signals, last staged first, and
\* forgets each one it restored.
RECURSIVE Restore(_, _)
Restore(w, g) ==
    IF ~w.ok \/ w.det.original_vals = <<>> THEN w
    ELSE LET n == Len(w.det.original_vals)
             o == w.det.original_vals[n]
             w1 == SetAndWait(w, o[1], o[2], g)
         IN  IF w1.ok
             THEN Restore([w1 EXCEPT !.det.original_vals = SubSeq(@, 1, n - 1)], g)
             ELSE w1

\* super().unstage() of the detector: the children are unstaged, the staged
\* signals restored, and the detector is unstaged when all of it worked.
DeviceUnstage(w, g) ==
    IF ~w.ok THEN w
    ELSE LET a == [Ev(w, <<"parent.unstage", "enter">>) EXCEPT
                      !.det.staged = "partially"]
             c == Restore(FileUnstage(a), g)
         IN  IF c.ok
             THEN [Ev(c, <<"parent.unstage", "ok">>) EXCEPT !.det.staged = "no"]
             ELSE c

\* A faulty variant of DetUnstage: manual_trigger is not reset.
DetUnstageNoReset(w, g) == DeviceUnstage(w, g)

\* EigerBaseV26.unstage
DetUnstage(w, g) ==
    DeviceUnstage(SetAndWait(w, "cam.manual_trigger", 0, g), g)

\* The parent's stage applies the stage_sigs from the i-th on, remembering
\* the value each one replaced.
RECURSIVE ApplyStageSigs(_, _, _)
ApplyStageSigs(w, i, f) ==
    IF ~w.ok \/ i > Len(StageSigs) THEN w
    ELSE LET reg == StageSigs[i][1]
             w1 == SetAndWait(w, reg, StageSigs[i][2], f)
         IN  IF w1.ok
             THEN ApplyStageSigs(
                      [w1 EXCEPT !.det.original_vals =
                                     Append(@, <<reg, w.hw[reg]>>)], i + 1, f)
             ELSE w1

\* super().stage() of the detector: refuses a detector that is staged or
\* partially staged; applies the stage_sigs and stages the children; when
\* any of that raises it calls self.unstage(), which is the unstage of
\* EigerBaseV26, and raises again.
DeviceStage(w, f, g) ==
    IF w.det.staged # "no" THEN Raised(w, "RedundantStaging")
    ELSE LET a == [Ev(w, <<"parent.stage", "enter">>) EXCEPT
                      !.det.staged = "partially"]
             c == FileStage(ApplyStageSigs(a, 1, f), f)
         IN  IF c.ok
             THEN [Ev(c, <<"parent.stage", "ok">>) EXCEPT !.det.staged = "yes"]
             ELSE [DetUnstage([c EXCEPT !.ok = TRUE], g) EXCEPT !.ok = FALSE]

\* A faulty variant of DetStage: manual_trigger is set before the parent
\* stages.
DetStageEarlyTrigger(w, f, g) ==
    DeviceStage(SetAndWait(w, "cam.manual_trigger", 1, f), f, g)

\* EigerBaseV26.stage
DetStage(w, f, g) ==
    SetAndWait(DeviceStage(w, f, g), "cam.manual_trigger", 1, f)

\* The world a call leaves becomes the state.
Apply(w, op, fault) ==
    /\ hw' = w.hw
    /\ plugin' = w.plugin
    /\ det' = w.det
    /\ docs' = w.docs
    /\ uids' = w.uids
    /\ call' = [op |-> op, ok |-> w.ok, trace |-> w.trace,
                faulty |-> fault # {}, prev |-> call.op]
    /\ UNCHANGED planVars

StageCall ==
    /\ uids < MaxStages
    /\ \E f \in Faults, g \in Faults : Apply(DetStage(World, f, g), "stage", f \cup g)

UnstageCall == \E g \in Faults : Apply(DetUnstage(World, g), "unstage", g)

FileStageCall ==
    /\ uids < MaxStages
    /\ \E f \in Faults : Apply(FileStage(World, f), "file.stage", f)

FileUnstageCall == Apply(FileUnstage(World), "file.unstage", {})

GenerateDatumCall ==
    /\ Len(docs.datums) < MaxDatums
    /\ Apply(GenerateDatum(World), "generate_datum", {})

\* The detector writes a sub-file and moves its sequence counter on.
HwCount ==
    /\ hw["file.sequence_id"] < MaxSeq
    /\ hw' = [hw EXCEPT !["file.sequence_id"] = @ + 1]
    /\ call' = NoCall
    /\ UNCHANGED <<plugin, det, docs, uids, planVars>>

\* The operator changes the images-per-file setting of the detector.
HwSetImagesPerFile ==
    /\ \E v \in ImagesPerFile \ {hw["file.file_write_images_per_file"]} :
         hw' = [hw EXCEPT !["file.file_write_images_per_file"] = v]
    /\ call' = NoCall
    /\ UNCHANGED <<plugin, det, docs, uids, planVars>>

PluginNext ==
    \/ FileStageCall
    \/ FileUnstageCall
    \/ GenerateDatumCall
    \/ HwCount
    \/ HwSetImagesPerFile

DetNext ==
    \/ StageCall
    \/ UnstageCall

\* ---------------------------------------------------------- specifications
\* The plans, beside a detector that nothing is called on.
InitPlan ==
    /\ proc = "none"
    /\ args = NoArgs
    /\ pc = 1
    /\ log = <<>>
    /\ status = "idle"
    /\ err = NoErr
    /\ hw \in {r \in InitialRegisters :
                 /\ r["cam.manual_trigger"] = 0
                 /\ r["cam.trigger_mode"] = 0
                 /\ r["file.file_write_images_per_file"] = 1}
    /\ plugin = [staged |-> "no", datum_factory |-> 0, frame_num |-> "None",
                 fn |-> <<>>]
    /\ det = [staged |-> "no", original_vals |-> <<>>]
    /\ docs = [resources |-> <<>>, datums |-> <<>>]
    /\ uids = 0
    /\ call = NoCall

SpecPlan == InitPlan /\ [][PlanNext]_vars

\* The file plugin called on its own.
SpecPlugin == Init /\ [][PluginNext]_vars

\* The detector, which stages and unstages the file plugin as its child.
SpecDet == Init /\ [][DetNext]_vars

\* ---------------------------------------------- properties of the detector
HasEv(tr, e) == \E i \in 1 .. Len(tr) : tr[i] = e

\* The place of the first e in tr, 0 when there is none.
Idx(tr, e) == IF HasEv(tr, e) THEN CHOOSE i \in 1 .. Len(tr) :
                                     tr[i] = e /\ \A j \in 1 .. i - 1 : tr[j] # e
              ELSE 0

Last(q) == q[Len(q)]

\* C1: the Datum that generate_datum produces carries seq_id = n + 1, n
\* being the value of the sequence_id register at the call; Datums already
\* produced are not altered.
C1_SeqIdOffset ==
    [][Len(docs'.datums) > Len(docs.datums) =>
          /\ Last(docs'.datums).seq_id = hw["file.sequence_id"] + 1
          /\ SubSeq(docs'.datums, 1, Len(docs.datums)) = docs.datums]_vars

C1_Witness ==
    /\ call.op = "generate_datum"
    /\ call.ok
    /\ hw["file.sequence_id"] = 2
    /\ Last(docs.datums).seq_id = 3
    /\ plugin.staged = "no"

\* C2: every Datum has an owning Resource, and generate_datum called when
\* no Resource has been opened raises and produces no Datum.
C2_NoOrphanDatum ==
    /\ \A i \in 1 .. Len(docs.datums) :
         docs.datums[i].resource \in 1 .. Len(docs.resources)
    /\ (call.op = "generate_datum" /\ docs.resources = <<>>) =>
         (~call.ok /\ docs.datums = <<>>)

C2_Witness ==
    /\ call.op = "generate_datum"
    /\ ~call.ok
    /\ docs.resources = <<>>
    /\ uids > 0

ParentStaged(tr) == HasEv(tr, <<"parent.stage", "ok">>)

\* C10 as stated, its second part: a stage() whose parent staging raises
\* leaves manual_trigger as it was.
C10_UnchangedWhenParentRaises ==
    [][(call'.op = "stage" /\ ~ParentStaged(call'.trace)) =>
          hw'["cam.manual_trigger"] = hw["cam.manual_trigger"]]_vars

\* C10 as amended: stage() sets manual_trigger to 1 only after the parent
\* staging has completed; when the parent staging raises, manual_trigger is
\* left as it was or reset to 0 by the unstage() of the parent's error path;
\* unstage() writes manual_trigger before the parent unstaging runs;
\* manual_trigger is 1 after every stage() that returned and 0 after every
\* unstage() whose write of it completed, the parent unstaging failing or
\* not.
C10_ManualTrigger ==
    /\ [][call'.op = "stage" =>
            /\ (hw'["cam.manual_trigger"] = 1 /\ hw["cam.manual_trigger"] # 1)
                 => (ParentStaged(call'.trace) /\ call'.ok)
            /\ ~ParentStaged(call'.trace) =>
                 hw'["cam.manual_trigger"] \in {hw["cam.manual_trigger"], 0}]_vars
    /\ [](call.op = "stage" /\ call.ok => hw["cam.manual_trigger"] = 1)
    /\ [](call.op = "unstage" =>
            /\ HasEv(call.trace, <<"parent.unstage", "enter">>) =>
                 /\ Idx(call.trace, <<"set", "cam.manual_trigger">>) > 0
                 /\ Idx(call.trace, <<"set", "cam.manual_trigger">>)
                      < Idx(call.trace, <<"parent.unstage", "enter">>)
            /\ HasEv(call.trace, <<"set", "cam.manual_trigger">>) =>
                 hw["cam.manual_trigger"] = 0)

C10_Witness ==
    /\ call.op = "stage"
    /\ ~call.ok
    /\ ~ParentStaged(call.trace)
    /\ HasEv(call.trace, <<"set", "cam.trigger_mode">>)
    /\ HasEv(call.trace, <<"set", "cam.manual_trigger">>)
    /\ hw["cam.manual_trigger"] = 0
    /\ det.staged = "no"
    /\ call.prev = "unstage"

C10_WitnessUnstageFails ==
    /\ call.op = "unstage"
    /\ ~call.ok
    /\ det.staged = "partially"
    /\ hw["cam.manual_trigger"] = 0

====
